---- MODULE Spec2Model ----
(***************************************************************************)
(* Model of ring_core_generated/prefix_symbols_asm.h: a table of #define   *)
(* renaming rules selected by `#if defined(__APPLE__)`, behind an include  *)
(* guard, and the C preprocessor's macro replacement of an identifier      *)
(* against the installed rules (replace, rescan, stop when no rule         *)
(* applies).  Names are the strings of the header; every string operation  *)
(* (prefixing, stripping) is computed on the characters.                   *)
(***************************************************************************)
EXTENDS Integers, Sequences, FiniteSets, TLC

\* How many times a translation unit includes the header, at most.
MaxIncludes == 2

\* The Apple alias rules with _ecp_nistz256_ord_mul_mont aliased to the field
\* multiplication instead of the scalar one.
AppleAliasRulesWrongTarget ==
  <<
     <<"_ecp_nistz256_point_double", "_p256_point_double">>,
     <<"_ecp_nistz256_point_add", "_p256_point_add">>,
     <<"_ecp_nistz256_point_add_affine", "_p256_point_add_affine">>,
     <<"_ecp_nistz256_ord_mul_mont", "_p256_mul_mont">>,
     <<"_ecp_nistz256_ord_sqr_mont", "_p256_scalar_sqr_rep_mont">>,
     <<"_ecp_nistz256_mul_mont", "_p256_mul_mont">>,
     <<"_ecp_nistz256_sqr_mont", "_p256_sqr_mont">>
  >>

\* Apple branch: the _ecp_nistz256_* alias rules (prefix_symbols_asm.h lines 6-12)
AppleAliasRules ==
  <<
     <<"_ecp_nistz256_point_double", "_p256_point_double">>,
     <<"_ecp_nistz256_point_add", "_p256_point_add">>,
     <<"_ecp_nistz256_point_add_affine", "_p256_point_add_affine">>,
     <<"_ecp_nistz256_ord_mul_mont", "_p256_scalar_mul_mont">>,
     <<"_ecp_nistz256_ord_sqr_mont", "_p256_scalar_sqr_rep_mont">>,
     <<"_ecp_nistz256_mul_mont", "_p256_mul_mont">>,
     <<"_ecp_nistz256_sqr_mont", "_p256_sqr_mont">>
  >>

\* Apple branch: rules from _adx_bmi2_available to _neon_available (prefix_symbols_asm.h lines 13-116)
AppleRulesA ==
  <<
     <<"_adx_bmi2_available", "_ring_core_0_17_14__adx_bmi2_available">>,
     <<"_avx2_available", "_ring_core_0_17_14__avx2_available">>,
     <<"_CRYPTO_memcmp", "_ring_core_0_17_14__CRYPTO_memcmp">>,
     <<"_CRYPTO_poly1305_finish", "_ring_core_0_17_14__CRYPTO_poly1305_finish">>,
     <<"_CRYPTO_poly1305_finish_neon", "_ring_core_0_17_14__CRYPTO_poly1305_finish_neon">>,
     <<"_CRYPTO_poly1305_init", "_ring_core_0_17_14__CRYPTO_poly1305_init">>,
     <<"_CRYPTO_poly1305_init_neon", "_ring_core_0_17_14__CRYPTO_poly1305_init_neon">>,
     <<"_CRYPTO_poly1305_update", "_ring_core_0_17_14__CRYPTO_poly1305_update">>,
     <<"_CRYPTO_poly1305_update_neon", "_ring_core_0_17_14__CRYPTO_poly1305_update_neon">>,
     <<"_ChaCha20_ctr32", "_ring_core_0_17_14__ChaCha20_ctr32">>,
     <<"_ChaCha20_ctr32_avx2", "_ring_core_0_17_14__ChaCha20_ctr32_avx2">>,
     <<"_ChaCha20_ctr32_neon", "_ring_core_0_17_14__ChaCha20_ctr32_neon">>,
     <<"_ChaCha20_ctr32_nohw", "_ring_core_0_17_14__ChaCha20_ctr32_nohw">>,
     <<"_ChaCha20_ctr32_ssse3", "_ring_core_0_17_14__ChaCha20_ctr32_ssse3">>,
     <<"_ChaCha20_ctr32_ssse3_4x", "_ring_core_0_17_14__ChaCha20_ctr32_ssse3_4x">>,
     <<"_LIMB_is_zero", "_ring_core_0_17_14__LIMB_is_zero">>,
     <<"_LIMBS_add_mod", "_ring_core_0_17_14__LIMBS_add_mod">>,
     <<"_LIMBS_are_zero", "_ring_core_0_17_14__LIMBS_are_zero">>,
     <<"_LIMBS_equal", "_ring_core_0_17_14__LIMBS_equal">>,
     <<"_LIMBS_less_than", "_ring_core_0_17_14__LIMBS_less_than">>,
     <<"_LIMBS_reduce_once", "_ring_core_0_17_14__LIMBS_reduce_once">>,
     <<"_LIMBS_select_512_32", "_ring_core_0_17_14__LIMBS_select_512_32">>,
     <<"_LIMBS_shl_mod", "_ring_core_0_17_14__LIMBS_shl_mod">>,
     <<"_LIMBS_sub_mod", "_ring_core_0_17_14__LIMBS_sub_mod">>,
     <<"_LIMBS_window5_split_window", "_ring_core_0_17_14__LIMBS_window5_split_window">>,
     <<"_LIMBS_window5_unsplit_window", "_ring_core_0_17_14__LIMBS_window5_unsplit_window">>,
     <<"_LIMB_shr", "_ring_core_0_17_14__LIMB_shr">>,
     <<"_OPENSSL_cpuid_setup", "_ring_core_0_17_14__OPENSSL_cpuid_setup">>,
     <<"_aes_gcm_dec_kernel", "_ring_core_0_17_14__aes_gcm_dec_kernel">>,
     <<"_aes_gcm_dec_update_vaes_avx2", "_ring_core_0_17_14__aes_gcm_dec_update_vaes_avx2">>,
     <<"_aes_gcm_enc_kernel", "_ring_core_0_17_14__aes_gcm_enc_kernel">>,
     <<"_aes_gcm_enc_update_vaes_avx2", "_ring_core_0_17_14__aes_gcm_enc_update_vaes_avx2">>,
     <<"_aes_hw_ctr32_encrypt_blocks", "_ring_core_0_17_14__aes_hw_ctr32_encrypt_blocks">>,
     <<"_aes_hw_set_encrypt_key", "_ring_core_0_17_14__aes_hw_set_encrypt_key">>,
     <<"_aes_hw_set_encrypt_key_alt", "_ring_core_0_17_14__aes_hw_set_encrypt_key_alt">>,
     <<"_aes_hw_set_encrypt_key_base", "_ring_core_0_17_14__aes_hw_set_encrypt_key_base">>,
     <<"_aes_nohw_ctr32_encrypt_blocks", "_ring_core_0_17_14__aes_nohw_ctr32_encrypt_blocks">>,
     <<"_aes_nohw_encrypt", "_ring_core_0_17_14__aes_nohw_encrypt">>,
     <<"_aes_nohw_set_encrypt_key", "_ring_core_0_17_14__aes_nohw_set_encrypt_key">>,
     <<"_aesni_gcm_decrypt", "_ring_core_0_17_14__aesni_gcm_decrypt">>,
     <<"_aesni_gcm_encrypt", "_ring_core_0_17_14__aesni_gcm_encrypt">>,
     <<"_bn_from_montgomery_in_place", "_ring_core_0_17_14__bn_from_montgomery_in_place">>,
     <<"_bn_gather5", "_ring_core_0_17_14__bn_gather5">>,
     <<"_bn_mul_mont", "_ring_core_0_17_14__bn_mul_mont">>,
     <<"_bn_mul_mont_nohw", "_ring_core_0_17_14__bn_mul_mont_nohw">>,
     <<"_bn_mul4x_mont", "_ring_core_0_17_14__bn_mul4x_mont">>,
     <<"_bn_mulx4x_mont", "_ring_core_0_17_14__bn_mulx4x_mont">>,
     <<"_bn_mul8x_mont_neon", "_ring_core_0_17_14__bn_mul8x_mont_neon">>,
     <<"_bn_mul4x_mont_gather5", "_ring_core_0_17_14__bn_mul4x_mont_gather5">>,
     <<"_bn_mulx4x_mont_gather5", "_ring_core_0_17_14__bn_mulx4x_mont_gather5">>,
     <<"_bn_neg_inv_mod_r_u64", "_ring_core_0_17_14__bn_neg_inv_mod_r_u64">>,
     <<"_bn_power5_nohw", "_ring_core_0_17_14__bn_power5_nohw">>,
     <<"_bn_powerx5", "_ring_core_0_17_14__bn_powerx5">>,
     <<"_bn_scatter5", "_ring_core_0_17_14__bn_scatter5">>,
     <<"_bn_sqr8x_internal", "_ring_core_0_17_14__bn_sqr8x_internal">>,
     <<"_bn_sqr8x_mont", "_ring_core_0_17_14__bn_sqr8x_mont">>,
     <<"_bn_sqrx8x_internal", "_ring_core_0_17_14__bn_sqrx8x_internal">>,
     <<"_bsaes_ctr32_encrypt_blocks", "_ring_core_0_17_14__bsaes_ctr32_encrypt_blocks">>,
     <<"_bssl_constant_time_test_conditional_memcpy", "_ring_core_0_17_14__bssl_constant_time_test_conditional_memcpy">>,
     <<"_bssl_constant_time_test_conditional_memxor", "_ring_core_0_17_14__bssl_constant_time_test_conditional_memxor">>,
     <<"_bssl_constant_time_test_main", "_ring_core_0_17_14__bssl_constant_time_test_main">>,
     <<"_chacha20_poly1305_open", "_ring_core_0_17_14__chacha20_poly1305_open">>,
     <<"_chacha20_poly1305_open_avx2", "_ring_core_0_17_14__chacha20_poly1305_open_avx2">>,
     <<"_chacha20_poly1305_open_sse41", "_ring_core_0_17_14__chacha20_poly1305_open_sse41">>,
     <<"_chacha20_poly1305_seal", "_ring_core_0_17_14__chacha20_poly1305_seal">>,
     <<"_chacha20_poly1305_seal_avx2", "_ring_core_0_17_14__chacha20_poly1305_seal_avx2">>,
     <<"_chacha20_poly1305_seal_sse41", "_ring_core_0_17_14__chacha20_poly1305_seal_sse41">>,
     <<"_ecp_nistz256_mul_mont_adx", "_ring_core_0_17_14__ecp_nistz256_mul_mont_adx">>,
     <<"_ecp_nistz256_mul_mont_nohw", "_ring_core_0_17_14__ecp_nistz256_mul_mont_nohw">>,
     <<"_ecp_nistz256_ord_mul_mont_adx", "_ring_core_0_17_14__ecp_nistz256_ord_mul_mont_adx">>,
     <<"_ecp_nistz256_ord_mul_mont_nohw", "_ring_core_0_17_14__ecp_nistz256_ord_mul_mont_nohw">>,
     <<"_ecp_nistz256_ord_sqr_mont_adx", "_ring_core_0_17_14__ecp_nistz256_ord_sqr_mont_adx">>,
     <<"_ecp_nistz256_ord_sqr_mont_nohw", "_ring_core_0_17_14__ecp_nistz256_ord_sqr_mont_nohw">>,
     <<"_ecp_nistz256_point_add_adx", "_ring_core_0_17_14__ecp_nistz256_point_add_adx">>,
     <<"_ecp_nistz256_point_add_nohw", "_ring_core_0_17_14__ecp_nistz256_point_add_nohw">>,
     <<"_ecp_nistz256_point_add_affine_adx", "_ring_core_0_17_14__ecp_nistz256_point_add_affine_adx">>,
     <<"_ecp_nistz256_point_add_affine_nohw", "_ring_core_0_17_14__ecp_nistz256_point_add_affine_nohw">>,
     <<"_ecp_nistz256_point_double_adx", "_ring_core_0_17_14__ecp_nistz256_point_double_adx">>,
     <<"_ecp_nistz256_point_double_nohw", "_ring_core_0_17_14__ecp_nistz256_point_double_nohw">>,
     <<"_ecp_nistz256_select_w5_avx2", "_ring_core_0_17_14__ecp_nistz256_select_w5_avx2">>,
     <<"_ecp_nistz256_select_w5_nohw", "_ring_core_0_17_14__ecp_nistz256_select_w5_nohw">>,
     <<"_ecp_nistz256_select_w7_avx2", "_ring_core_0_17_14__ecp_nistz256_select_w7_avx2">>,
     <<"_ecp_nistz256_select_w7_nohw", "_ring_core_0_17_14__ecp_nistz256_select_w7_nohw">>,
     <<"_ecp_nistz256_sqr_mont_adx", "_ring_core_0_17_14__ecp_nistz256_sqr_mont_adx">>,
     <<"_ecp_nistz256_sqr_mont_nohw", "_ring_core_0_17_14__ecp_nistz256_sqr_mont_nohw">>,
     <<"_fiat_curve25519_adx_mul", "_ring_core_0_17_14__fiat_curve25519_adx_mul">>,
     <<"_fiat_curve25519_adx_square", "_ring_core_0_17_14__fiat_curve25519_adx_square">>,
     <<"_gcm_ghash_avx", "_ring_core_0_17_14__gcm_ghash_avx">>,
     <<"_gcm_ghash_clmul", "_ring_core_0_17_14__gcm_ghash_clmul">>,
     <<"_gcm_ghash_neon", "_ring_core_0_17_14__gcm_ghash_neon">>,
     <<"_gcm_ghash_vpclmulqdq_avx2_1", "_ring_core_0_17_14__gcm_ghash_vpclmulqdq_avx2_1">>,
     <<"_gcm_gmult_clmul", "_ring_core_0_17_14__gcm_gmult_clmul">>,
     <<"_gcm_gmult_neon", "_ring_core_0_17_14__gcm_gmult_neon">>,
     <<"_gcm_init_avx", "_ring_core_0_17_14__gcm_init_avx">>,
     <<"_gcm_init_clmul", "_ring_core_0_17_14__gcm_init_clmul">>,
     <<"_gcm_init_neon", "_ring_core_0_17_14__gcm_init_neon">>,
     <<"_gcm_init_vpclmulqdq_avx2", "_ring_core_0_17_14__gcm_init_vpclmulqdq_avx2">>,
     <<"_k25519Precomp", "_ring_core_0_17_14__k25519Precomp">>,
     <<"_limbs_mul_add_limb", "_ring_core_0_17_14__limbs_mul_add_limb">>,
     <<"_little_endian_bytes_from_scalar", "_ring_core_0_17_14__little_endian_bytes_from_scalar">>,
     <<"_ecp_nistz256_neg", "_ring_core_0_17_14__ecp_nistz256_neg">>,
     <<"_ecp_nistz256_select_w5", "_ring_core_0_17_14__ecp_nistz256_select_w5">>,
     <<"_ecp_nistz256_select_w7", "_ring_core_0_17_14__ecp_nistz256_select_w7">>,
     <<"_neon_available", "_ring_core_0_17_14__neon_available">>
  >>

\* Apple branch: the _p256_* rules (prefix_symbols_asm.h lines 117-126)
AppleP256Rules ==
  <<
     <<"_p256_mul_mont", "_ring_core_0_17_14__p256_mul_mont">>,
     <<"_p256_point_add", "_ring_core_0_17_14__p256_point_add">>,
     <<"_p256_point_add_affine", "_ring_core_0_17_14__p256_point_add_affine">>,
     <<"_p256_point_double", "_ring_core_0_17_14__p256_point_double">>,
     <<"_p256_point_mul", "_ring_core_0_17_14__p256_point_mul">>,
     <<"_p256_point_mul_base", "_ring_core_0_17_14__p256_point_mul_base">>,
     <<"_p256_point_mul_base_vartime", "_ring_core_0_17_14__p256_point_mul_base_vartime">>,
     <<"_p256_scalar_mul_mont", "_ring_core_0_17_14__p256_scalar_mul_mont">>,
     <<"_p256_scalar_sqr_rep_mont", "_ring_core_0_17_14__p256_scalar_sqr_rep_mont">>,
     <<"_p256_sqr_mont", "_ring_core_0_17_14__p256_sqr_mont">>
  >>

\* Apple branch: rules from _p384_elem_div_by_2 to the end of the branch (prefix_symbols_asm.h lines 127-167)
AppleRulesB ==
  <<
     <<"_p384_elem_div_by_2", "_ring_core_0_17_14__p384_elem_div_by_2">>,
     <<"_p384_elem_mul_mont", "_ring_core_0_17_14__p384_elem_mul_mont">>,
     <<"_p384_elem_neg", "_ring_core_0_17_14__p384_elem_neg">>,
     <<"_p384_elem_sub", "_ring_core_0_17_14__p384_elem_sub">>,
     <<"_p384_point_add", "_ring_core_0_17_14__p384_point_add">>,
     <<"_p384_point_double", "_ring_core_0_17_14__p384_point_double">>,
     <<"_p384_point_mul", "_ring_core_0_17_14__p384_point_mul">>,
     <<"_p384_scalar_mul_mont", "_ring_core_0_17_14__p384_scalar_mul_mont">>,
     <<"_openssl_poly1305_neon2_addmulmod", "_ring_core_0_17_14__openssl_poly1305_neon2_addmulmod">>,
     <<"_openssl_poly1305_neon2_blocks", "_ring_core_0_17_14__openssl_poly1305_neon2_blocks">>,
     <<"_sha256_block_data_order", "_ring_core_0_17_14__sha256_block_data_order">>,
     <<"_sha256_block_data_order_avx", "_ring_core_0_17_14__sha256_block_data_order_avx">>,
     <<"_sha256_block_data_order_ssse3", "_ring_core_0_17_14__sha256_block_data_order_ssse3">>,
     <<"_sha256_block_data_order_hw", "_ring_core_0_17_14__sha256_block_data_order_hw">>,
     <<"_sha256_block_data_order_neon", "_ring_core_0_17_14__sha256_block_data_order_neon">>,
     <<"_sha256_block_data_order_nohw", "_ring_core_0_17_14__sha256_block_data_order_nohw">>,
     <<"_sha512_block_data_order", "_ring_core_0_17_14__sha512_block_data_order">>,
     <<"_sha512_block_data_order_avx", "_ring_core_0_17_14__sha512_block_data_order_avx">>,
     <<"_sha512_block_data_order_hw", "_ring_core_0_17_14__sha512_block_data_order_hw">>,
     <<"_sha512_block_data_order_neon", "_ring_core_0_17_14__sha512_block_data_order_neon">>,
     <<"_sha512_block_data_order_nohw", "_ring_core_0_17_14__sha512_block_data_order_nohw">>,
     <<"_vpaes_ctr32_encrypt_blocks", "_ring_core_0_17_14__vpaes_ctr32_encrypt_blocks">>,
     <<"_vpaes_encrypt", "_ring_core_0_17_14__vpaes_encrypt">>,
     <<"_vpaes_encrypt_key_to_bsaes", "_ring_core_0_17_14__vpaes_encrypt_key_to_bsaes">>,
     <<"_vpaes_set_encrypt_key", "_ring_core_0_17_14__vpaes_set_encrypt_key">>,
     <<"_x25519_NEON", "_ring_core_0_17_14__x25519_NEON">>,
     <<"_x25519_fe_invert", "_ring_core_0_17_14__x25519_fe_invert">>,
     <<"_x25519_fe_isnegative", "_ring_core_0_17_14__x25519_fe_isnegative">>,
     <<"_x25519_fe_mul_ttt", "_ring_core_0_17_14__x25519_fe_mul_ttt">>,
     <<"_x25519_fe_neg", "_ring_core_0_17_14__x25519_fe_neg">>,
     <<"_x25519_fe_tobytes", "_ring_core_0_17_14__x25519_fe_tobytes">>,
     <<"_x25519_ge_double_scalarmult_vartime", "_ring_core_0_17_14__x25519_ge_double_scalarmult_vartime">>,
     <<"_x25519_ge_frombytes_vartime", "_ring_core_0_17_14__x25519_ge_frombytes_vartime">>,
     <<"_x25519_ge_scalarmult_base", "_ring_core_0_17_14__x25519_ge_scalarmult_base">>,
     <<"_x25519_ge_scalarmult_base_adx", "_ring_core_0_17_14__x25519_ge_scalarmult_base_adx">>,
     <<"_x25519_public_from_private_generic_masked", "_ring_core_0_17_14__x25519_public_from_private_generic_masked">>,
     <<"_x25519_sc_mask", "_ring_core_0_17_14__x25519_sc_mask">>,
     <<"_x25519_sc_muladd", "_ring_core_0_17_14__x25519_sc_muladd">>,
     <<"_x25519_sc_reduce", "_ring_core_0_17_14__x25519_sc_reduce">>,
     <<"_x25519_scalar_mult_adx", "_ring_core_0_17_14__x25519_scalar_mult_adx">>,
     <<"_x25519_scalar_mult_generic_masked", "_ring_core_0_17_14__x25519_scalar_mult_generic_masked">>
  >>

\* The alias rules with the first one emitted the wrong way round.
NonAppleAliasRulesReversed ==
  <<
     <<"p256_point_double", "ecp_nistz256_point_double">>,
     <<"ecp_nistz256_point_add", "p256_point_add">>,
     <<"ecp_nistz256_point_add_affine", "p256_point_add_affine">>,
     <<"ecp_nistz256_ord_mul_mont", "p256_scalar_mul_mont">>,
     <<"ecp_nistz256_ord_sqr_mont", "p256_scalar_sqr_rep_mont">>,
     <<"ecp_nistz256_mul_mont", "p256_mul_mont">>,
     <<"ecp_nistz256_sqr_mont", "p256_sqr_mont">>
  >>

\* non-Apple branch: the ecp_nistz256_* alias rules (prefix_symbols_asm.h lines 170-176)
NonAppleAliasRules ==
  <<
     <<"ecp_nistz256_point_double", "p256_point_double">>,
     <<"ecp_nistz256_point_add", "p256_point_add">>,
     <<"ecp_nistz256_point_add_affine", "p256_point_add_affine">>,
     <<"ecp_nistz256_ord_mul_mont", "p256_scalar_mul_mont">>,
     <<"ecp_nistz256_ord_sqr_mont", "p256_scalar_sqr_rep_mont">>,
     <<"ecp_nistz256_mul_mont", "p256_mul_mont">>,
     <<"ecp_nistz256_sqr_mont", "p256_sqr_mont">>
  >>

\* non-Apple branch: rules from adx_bmi2_available to neon_available (prefix_symbols_asm.h lines 177-280)
NonAppleRulesA ==
  <<
     <<"adx_bmi2_available", "ring_core_0_17_14__adx_bmi2_available">>,
     <<"avx2_available", "ring_core_0_17_14__avx2_available">>,
     <<"CRYPTO_memcmp", "ring_core_0_17_14__CRYPTO_memcmp">>,
     <<"CRYPTO_poly1305_finish", "ring_core_0_17_14__CRYPTO_poly1305_finish">>,
     <<"CRYPTO_poly1305_finish_neon", "ring_core_0_17_14__CRYPTO_poly1305_finish_neon">>,
     <<"CRYPTO_poly1305_init", "ring_core_0_17_14__CRYPTO_poly1305_init">>,
     <<"CRYPTO_poly1305_init_neon", "ring_core_0_17_14__CRYPTO_poly1305_init_neon">>,
     <<"CRYPTO_poly1305_update", "ring_core_0_17_14__CRYPTO_poly1305_update">>,
     <<"CRYPTO_poly1305_update_neon", "ring_core_0_17_14__CRYPTO_poly1305_update_neon">>,
     <<"ChaCha20_ctr32", "ring_core_0_17_14__ChaCha20_ctr32">>,
     <<"ChaCha20_ctr32_avx2", "ring_core_0_17_14__ChaCha20_ctr32_avx2">>,
     <<"ChaCha20_ctr32_neon", "ring_core_0_17_14__ChaCha20_ctr32_neon">>,
     <<"ChaCha20_ctr32_nohw", "ring_core_0_17_14__ChaCha20_ctr32_nohw">>,
     <<"ChaCha20_ctr32_ssse3", "ring_core_0_17_14__ChaCha20_ctr32_ssse3">>,
     <<"ChaCha20_ctr32_ssse3_4x", "ring_core_0_17_14__ChaCha20_ctr32_ssse3_4x">>,
     <<"LIMB_is_zero", "ring_core_0_17_14__LIMB_is_zero">>,
     <<"LIMBS_add_mod", "ring_core_0_17_14__LIMBS_add_mod">>,
     <<"LIMBS_are_zero", "ring_core_0_17_14__LIMBS_are_zero">>,
     <<"LIMBS_equal", "ring_core_0_17_14__LIMBS_equal">>,
     <<"LIMBS_less_than", "ring_core_0_17_14__LIMBS_less_than">>,
     <<"LIMBS_reduce_once", "ring_core_0_17_14__LIMBS_reduce_once">>,
     <<"LIMBS_select_512_32", "ring_core_0_17_14__LIMBS_select_512_32">>,
     <<"LIMBS_shl_mod", "ring_core_0_17_14__LIMBS_shl_mod">>,
     <<"LIMBS_sub_mod", "ring_core_0_17_14__LIMBS_sub_mod">>,
     <<"LIMBS_window5_split_window", "ring_core_0_17_14__LIMBS_window5_split_window">>,
     <<"LIMBS_window5_unsplit_window", "ring_core_0_17_14__LIMBS_window5_unsplit_window">>,
     <<"LIMB_shr", "ring_core_0_17_14__LIMB_shr">>,
     <<"OPENSSL_cpuid_setup", "ring_core_0_17_14__OPENSSL_cpuid_setup">>,
     <<"aes_gcm_dec_kernel", "ring_core_0_17_14__aes_gcm_dec_kernel">>,
     <<"aes_gcm_dec_update_vaes_avx2", "ring_core_0_17_14__aes_gcm_dec_update_vaes_avx2">>,
     <<"aes_gcm_enc_kernel", "ring_core_0_17_14__aes_gcm_enc_kernel">>,
     <<"aes_gcm_enc_update_vaes_avx2", "ring_core_0_17_14__aes_gcm_enc_update_vaes_avx2">>,
     <<"aes_hw_ctr32_encrypt_blocks", "ring_core_0_17_14__aes_hw_ctr32_encrypt_blocks">>,
     <<"aes_hw_set_encrypt_key", "ring_core_0_17_14__aes_hw_set_encrypt_key">>,
     <<"aes_hw_set_encrypt_key_alt", "ring_core_0_17_14__aes_hw_set_encrypt_key_alt">>,
     <<"aes_hw_set_encrypt_key_base", "ring_core_0_17_14__aes_hw_set_encrypt_key_base">>,
     <<"aes_nohw_ctr32_encrypt_blocks", "ring_core_0_17_14__aes_nohw_ctr32_encrypt_blocks">>,
     <<"aes_nohw_encrypt", "ring_core_0_17_14__aes_nohw_encrypt">>,
     <<"aes_nohw_set_encrypt_key", "ring_core_0_17_14__aes_nohw_set_encrypt_key">>,
     <<"aesni_gcm_decrypt", "ring_core_0_17_14__aesni_gcm_decrypt">>,
     <<"aesni_gcm_encrypt", "ring_core_0_17_14__aesni_gcm_encrypt">>,
     <<"bn_from_montgomery_in_place", "ring_core_0_17_14__bn_from_montgomery_in_place">>,
     <<"bn_gather5", "ring_core_0_17_14__bn_gather5">>,
     <<"bn_mul_mont", "ring_core_0_17_14__bn_mul_mont">>,
     <<"bn_mul_mont_nohw", "ring_core_0_17_14__bn_mul_mont_nohw">>,
     <<"bn_mul4x_mont", "ring_core_0_17_14__bn_mul4x_mont">>,
     <<"bn_mulx4x_mont", "ring_core_0_17_14__bn_mulx4x_mont">>,
     <<"bn_mul8x_mont_neon", "ring_core_0_17_14__bn_mul8x_mont_neon">>,
     <<"bn_mul4x_mont_gather5", "ring_core_0_17_14__bn_mul4x_mont_gather5">>,
     <<"bn_mulx4x_mont_gather5", "ring_core_0_17_14__bn_mulx4x_mont_gather5">>,
     <<"bn_neg_inv_mod_r_u64", "ring_core_0_17_14__bn_neg_inv_mod_r_u64">>,
     <<"bn_power5_nohw", "ring_core_0_17_14__bn_power5_nohw">>,
     <<"bn_powerx5", "ring_core_0_17_14__bn_powerx5">>,
     <<"bn_scatter5", "ring_core_0_17_14__bn_scatter5">>,
     <<"bn_sqr8x_internal", "ring_core_0_17_14__bn_sqr8x_internal">>,
     <<"bn_sqr8x_mont", "ring_core_0_17_14__bn_sqr8x_mont">>,
     <<"bn_sqrx8x_internal", "ring_core_0_17_14__bn_sqrx8x_internal">>,
     <<"bsaes_ctr32_encrypt_blocks", "ring_core_0_17_14__bsaes_ctr32_encrypt_blocks">>,
     <<"bssl_constant_time_test_conditional_memcpy", "ring_core_0_17_14__bssl_constant_time_test_conditional_memcpy">>,
     <<"bssl_constant_time_test_conditional_memxor", "ring_core_0_17_14__bssl_constant_time_test_conditional_memxor">>,
     <<"bssl_constant_time_test_main", "ring_core_0_17_14__bssl_constant_time_test_main">>,
     <<"chacha20_poly1305_open", "ring_core_0_17_14__chacha20_poly1305_open">>,
     <<"chacha20_poly1305_open_avx2", "ring_core_0_17_14__chacha20_poly1305_open_avx2">>,
     <<"chacha20_poly1305_open_sse41", "ring_core_0_17_14__chacha20_poly1305_open_sse41">>,
     <<"chacha20_poly1305_seal", "ring_core_0_17_14__chacha20_poly1305_seal">>,
     <<"chacha20_poly1305_seal_avx2", "ring_core_0_17_14__chacha20_poly1305_seal_avx2">>,
     <<"chacha20_poly1305_seal_sse41", "ring_core_0_17_14__chacha20_poly1305_seal_sse41">>,
     <<"ecp_nistz256_mul_mont_adx", "ring_core_0_17_14__ecp_nistz256_mul_mont_adx">>,
     <<"ecp_nistz256_mul_mont_nohw", "ring_core_0_17_14__ecp_nistz256_mul_mont_nohw">>,
     <<"ecp_nistz256_ord_mul_mont_adx", "ring_core_0_17_14__ecp_nistz256_ord_mul_mont_adx">>,
     <<"ecp_nistz256_ord_mul_mont_nohw", "ring_core_0_17_14__ecp_nistz256_ord_mul_mont_nohw">>,
     <<"ecp_nistz256_ord_sqr_mont_adx", "ring_core_0_17_14__ecp_nistz256_ord_sqr_mont_adx">>,
     <<"ecp_nistz256_ord_sqr_mont_nohw", "ring_core_0_17_14__ecp_nistz256_ord_sqr_mont_nohw">>,
     <<"ecp_nistz256_point_add_adx", "ring_core_0_17_14__ecp_nistz256_point_add_adx">>,
     <<"ecp_nistz256_point_add_nohw", "ring_core_0_17_14__ecp_nistz256_point_add_nohw">>,
     <<"ecp_nistz256_point_add_affine_adx", "ring_core_0_17_14__ecp_nistz256_point_add_affine_adx">>,
     <<"ecp_nistz256_point_add_affine_nohw", "ring_core_0_17_14__ecp_nistz256_point_add_affine_nohw">>,
     <<"ecp_nistz256_point_double_adx", "ring_core_0_17_14__ecp_nistz256_point_double_adx">>,
     <<"ecp_nistz256_point_double_nohw", "ring_core_0_17_14__ecp_nistz256_point_double_nohw">>,
     <<"ecp_nistz256_select_w5_avx2", "ring_core_0_17_14__ecp_nistz256_select_w5_avx2">>,
     <<"ecp_nistz256_select_w5_nohw", "ring_core_0_17_14__ecp_nistz256_select_w5_nohw">>,
     <<"ecp_nistz256_select_w7_avx2", "ring_core_0_17_14__ecp_nistz256_select_w7_avx2">>,
     <<"ecp_nistz256_select_w7_nohw", "ring_core_0_17_14__ecp_nistz256_select_w7_nohw">>,
     <<"ecp_nistz256_sqr_mont_adx", "ring_core_0_17_14__ecp_nistz256_sqr_mont_adx">>,
     <<"ecp_nistz256_sqr_mont_nohw", "ring_core_0_17_14__ecp_nistz256_sqr_mont_nohw">>,
     <<"fiat_curve25519_adx_mul", "ring_core_0_17_14__fiat_curve25519_adx_mul">>,
     <<"fiat_curve25519_adx_square", "ring_core_0_17_14__fiat_curve25519_adx_square">>,
     <<"gcm_ghash_avx", "ring_core_0_17_14__gcm_ghash_avx">>,
     <<"gcm_ghash_clmul", "ring_core_0_17_14__gcm_ghash_clmul">>,
     <<"gcm_ghash_neon", "ring_core_0_17_14__gcm_ghash_neon">>,
     <<"gcm_ghash_vpclmulqdq_avx2_1", "ring_core_0_17_14__gcm_ghash_vpclmulqdq_avx2_1">>,
     <<"gcm_gmult_clmul", "ring_core_0_17_14__gcm_gmult_clmul">>,
     <<"gcm_gmult_neon", "ring_core_0_17_14__gcm_gmult_neon">>,
     <<"gcm_init_avx", "ring_core_0_17_14__gcm_init_avx">>,
     <<"gcm_init_clmul", "ring_core_0_17_14__gcm_init_clmul">>,
     <<"gcm_init_neon", "ring_core_0_17_14__gcm_init_neon">>,
     <<"gcm_init_vpclmulqdq_avx2", "ring_core_0_17_14__gcm_init_vpclmulqdq_avx2">>,
     <<"k25519Precomp", "ring_core_0_17_14__k25519Precomp">>,
     <<"limbs_mul_add_limb", "ring_core_0_17_14__limbs_mul_add_limb">>,
     <<"little_endian_bytes_from_scalar", "ring_core_0_17_14__little_endian_bytes_from_scalar">>,
     <<"ecp_nistz256_neg", "ring_core_0_17_14__ecp_nistz256_neg">>,
     <<"ecp_nistz256_select_w5", "ring_core_0_17_14__ecp_nistz256_select_w5">>,
     <<"ecp_nistz256_select_w7", "ring_core_0_17_14__ecp_nistz256_select_w7">>,
     <<"neon_available", "ring_core_0_17_14__neon_available">>
  >>

\* The p256_* rules with p256_point_double sent back to its alias name.
NonAppleP256RulesCycle ==
  <<
     <<"p256_mul_mont", "ring_core_0_17_14__p256_mul_mont">>,
     <<"p256_point_add", "ring_core_0_17_14__p256_point_add">>,
     <<"p256_point_add_affine", "ring_core_0_17_14__p256_point_add_affine">>,
     <<"p256_point_double", "ecp_nistz256_point_double">>,
     <<"p256_point_mul", "ring_core_0_17_14__p256_point_mul">>,
     <<"p256_point_mul_base", "ring_core_0_17_14__p256_point_mul_base">>,
     <<"p256_point_mul_base_vartime", "ring_core_0_17_14__p256_point_mul_base_vartime">>,
     <<"p256_scalar_mul_mont", "ring_core_0_17_14__p256_scalar_mul_mont">>,
     <<"p256_scalar_sqr_rep_mont", "ring_core_0_17_14__p256_scalar_sqr_rep_mont">>,
     <<"p256_sqr_mont", "ring_core_0_17_14__p256_sqr_mont">>
  >>

\* The p256_* rules with p256_point_mul_base given the replacement of
\* p256_point_mul.
NonAppleP256RulesCopyPaste ==
  <<
     <<"p256_mul_mont", "ring_core_0_17_14__p256_mul_mont">>,
     <<"p256_point_add", "ring_core_0_17_14__p256_point_add">>,
     <<"p256_point_add_affine", "ring_core_0_17_14__p256_point_add_affine">>,
     <<"p256_point_double", "ring_core_0_17_14__p256_point_double">>,
     <<"p256_point_mul", "ring_core_0_17_14__p256_point_mul">>,
     <<"p256_point_mul_base", "ring_core_0_17_14__p256_point_mul">>,
     <<"p256_point_mul_base_vartime", "ring_core_0_17_14__p256_point_mul_base_vartime">>,
     <<"p256_scalar_mul_mont", "ring_core_0_17_14__p256_scalar_mul_mont">>,
     <<"p256_scalar_sqr_rep_mont", "ring_core_0_17_14__p256_scalar_sqr_rep_mont">>,
     <<"p256_sqr_mont", "ring_core_0_17_14__p256_sqr_mont">>
  >>

\* non-Apple branch: the p256_* rules (prefix_symbols_asm.h lines 281-290)
NonAppleP256Rules ==
  <<
     <<"p256_mul_mont", "ring_core_0_17_14__p256_mul_mont">>,
     <<"p256_point_add", "ring_core_0_17_14__p256_point_add">>,
     <<"p256_point_add_affine", "ring_core_0_17_14__p256_point_add_affine">>,
     <<"p256_point_double", "ring_core_0_17_14__p256_point_double">>,
     <<"p256_point_mul", "ring_core_0_17_14__p256_point_mul">>,
     <<"p256_point_mul_base", "ring_core_0_17_14__p256_point_mul_base">>,
     <<"p256_point_mul_base_vartime", "ring_core_0_17_14__p256_point_mul_base_vartime">>,
     <<"p256_scalar_mul_mont", "ring_core_0_17_14__p256_scalar_mul_mont">>,
     <<"p256_scalar_sqr_rep_mont", "ring_core_0_17_14__p256_scalar_sqr_rep_mont">>,
     <<"p256_sqr_mont", "ring_core_0_17_14__p256_sqr_mont">>
  >>

\* non-Apple branch: rules from p384_elem_div_by_2 to the end of the branch (prefix_symbols_asm.h lines 291-331)
NonAppleRulesB ==
  <<
     <<"p384_elem_div_by_2", "ring_core_0_17_14__p384_elem_div_by_2">>,
     <<"p384_elem_mul_mont", "ring_core_0_17_14__p384_elem_mul_mont">>,
     <<"p384_elem_neg", "ring_core_0_17_14__p384_elem_neg">>,
     <<"p384_elem_sub", "ring_core_0_17_14__p384_elem_sub">>,
     <<"p384_point_add", "ring_core_0_17_14__p384_point_add">>,
     <<"p384_point_double", "ring_core_0_17_14__p384_point_double">>,
     <<"p384_point_mul", "ring_core_0_17_14__p384_point_mul">>,
     <<"p384_scalar_mul_mont", "ring_core_0_17_14__p384_scalar_mul_mont">>,
     <<"openssl_poly1305_neon2_addmulmod", "ring_core_0_17_14__openssl_poly1305_neon2_addmulmod">>,
     <<"openssl_poly1305_neon2_blocks", "ring_core_0_17_14__openssl_poly1305_neon2_blocks">>,
     <<"sha256_block_data_order", "ring_core_0_17_14__sha256_block_data_order">>,
     <<"sha256_block_data_order_avx", "ring_core_0_17_14__sha256_block_data_order_avx">>,
     <<"sha256_block_data_order_ssse3", "ring_core_0_17_14__sha256_block_data_order_ssse3">>,
     <<"sha256_block_data_order_hw", "ring_core_0_17_14__sha256_block_data_order_hw">>,
     <<"sha256_block_data_order_neon", "ring_core_0_17_14__sha256_block_data_order_neon">>,
     <<"sha256_block_data_order_nohw", "ring_core_0_17_14__sha256_block_data_order_nohw">>,
     <<"sha512_block_data_order", "ring_core_0_17_14__sha512_block_data_order">>,
     <<"sha512_block_data_order_avx", "ring_core_0_17_14__sha512_block_data_order_avx">>,
     <<"sha512_block_data_order_hw", "ring_core_0_17_14__sha512_block_data_order_hw">>,
     <<"sha512_block_data_order_neon", "ring_core_0_17_14__sha512_block_data_order_neon">>,
     <<"sha512_block_data_order_nohw", "ring_core_0_17_14__sha512_block_data_order_nohw">>,
     <<"vpaes_ctr32_encrypt_blocks", "ring_core_0_17_14__vpaes_ctr32_encrypt_blocks">>,
     <<"vpaes_encrypt", "ring_core_0_17_14__vpaes_encrypt">>,
     <<"vpaes_encrypt_key_to_bsaes", "ring_core_0_17_14__vpaes_encrypt_key_to_bsaes">>,
     <<"vpaes_set_encrypt_key", "ring_core_0_17_14__vpaes_set_encrypt_key">>,
     <<"x25519_NEON", "ring_core_0_17_14__x25519_NEON">>,
     <<"x25519_fe_invert", "ring_core_0_17_14__x25519_fe_invert">>,
     <<"x25519_fe_isnegative", "ring_core_0_17_14__x25519_fe_isnegative">>,
     <<"x25519_fe_mul_ttt", "ring_core_0_17_14__x25519_fe_mul_ttt">>,
     <<"x25519_fe_neg", "ring_core_0_17_14__x25519_fe_neg">>,
     <<"x25519_fe_tobytes", "ring_core_0_17_14__x25519_fe_tobytes">>,
     <<"x25519_ge_double_scalarmult_vartime", "ring_core_0_17_14__x25519_ge_double_scalarmult_vartime">>,
     <<"x25519_ge_frombytes_vartime", "ring_core_0_17_14__x25519_ge_frombytes_vartime">>,
     <<"x25519_ge_scalarmult_base", "ring_core_0_17_14__x25519_ge_scalarmult_base">>,
     <<"x25519_ge_scalarmult_base_adx", "ring_core_0_17_14__x25519_ge_scalarmult_base_adx">>,
     <<"x25519_public_from_private_generic_masked", "ring_core_0_17_14__x25519_public_from_private_generic_masked">>,
     <<"x25519_sc_mask", "ring_core_0_17_14__x25519_sc_mask">>,
     <<"x25519_sc_muladd", "ring_core_0_17_14__x25519_sc_muladd">>,
     <<"x25519_sc_reduce", "ring_core_0_17_14__x25519_sc_reduce">>,
     <<"x25519_scalar_mult_adx", "ring_core_0_17_14__x25519_scalar_mult_adx">>,
     <<"x25519_scalar_mult_generic_masked", "ring_core_0_17_14__x25519_scalar_mult_generic_masked">>
  >>

(***************************************************************************)
(* The two branches of the header, in source order.                        *)
(***************************************************************************)
\* The Apple branch generated without its alias rules.
AppleRulesNoAliases == AppleRulesA \o AppleP256Rules \o AppleRulesB

AppleRules == AppleAliasRules \o AppleRulesA \o AppleP256Rules \o AppleRulesB

NonAppleRules == NonAppleAliasRules \o NonAppleRulesA \o NonAppleP256Rules \o NonAppleRulesB

\* The branches with the #else missing: an Apple compilation sees both.
BranchRulesBoth(isApple) == IF isApple THEN AppleRules \o NonAppleRules ELSE NonAppleRules

\* The branches under the inverted condition.
BranchRulesSwapped(isApple) == IF isApple THEN NonAppleRules ELSE AppleRules

\* #if defined(__APPLE__) ... #else ... #endif: the branch a compilation sees.
BranchRules(isApple) == IF isApple THEN AppleRules ELSE NonAppleRules

\* The version string embedded in every prefixed replacement of the header.
VersionTag == "0_17_14"

\* Version strings of library copies that may be linked into one binary.
Tags == {"0_17_14", "0_17_13", "0_17_1", "0_16_20"}

(***************************************************************************)
(* String helpers.                                                         *)
(***************************************************************************)
HasPrefix(s, p) == Len(s) >= Len(p) /\ SubSeq(s, 1, Len(p)) = p

DropPrefix(s, p) == SubSeq(s, Len(p) + 1, Len(s))

\* The prefix the generator puts before a canonical name: ring_core_<tag>__,
\* with the platform's leading underscore on Apple.
Prefix(isApple, v) == (IF isApple THEN "_" ELSE "") \o "ring_core_" \o v \o "__"

\* The replacement text the generator emits for version tag v: the embedded
\* version string of a prefixed replacement is v; an unprefixed replacement
\* (an alias rule) carries no version string and is emitted as it is.
Retag(body, isApple, v) ==
  IF HasPrefix(body, Prefix(isApple, VersionTag))
    THEN Prefix(isApple, v) \o DropPrefix(body, Prefix(isApple, VersionTag))
    ELSE body

\* The rules of the header generated for platform class isApple and tag v.
ActiveRules(isApple, v) ==
  [i \in 1..Len(BranchRules(isApple)) |->
     <<BranchRules(isApple)[i][1], Retag(BranchRules(isApple)[i][2], isApple, v)>>]

Lhs(rules) == {rules[i][1] : i \in 1..Len(rules)}

Rhs(rules) == {rules[i][2] : i \in 1..Len(rules)}

(***************************************************************************)
(* The preprocessor.                                                       *)
(***************************************************************************)
\* No macro defined.
NoMacros == [table |-> <<>>, redefined |-> {}]

\* The #define line that is in force for name n once lines 1..Len(rules) have
\* been processed: the last one that defines n.
LastDefine(rules, n) ==
  CHOOSE i \in 1..Len(rules) :
    /\ rules[i][1] = n
    /\ \A j \in (i + 1)..Len(rules) : rules[j][1] # n

\* The #define lines of a branch are processed top to bottom.  Each makes its
\* name stand for its body, so at the end a name stands for the body of its
\* last #define; a #define of a name that an earlier line defined with another
\* body is a redefinition, which is diagnosed.
Install(rules) ==
  [table     |-> [n \in Lhs(rules) |-> rules[LastDefine(rules, n)][2]],
   redefined |-> {rules[i][1] : i \in
                    {k \in 1..Len(rules) :
                       \E j \in 1..(k - 1) :
                          rules[j][1] = rules[k][1] /\ rules[j][2] # rules[k][2]}}]

\* The macro state after the header's active branch has been processed.
Installed ==
  [a \in BOOLEAN, v \in Tags |-> Install(ActiveRules(a, v))]

\* Replacement without rescanning: only the mentioned identifier is replaced.
AppliesOnce(table, t, hidden) == t \in DOMAIN table /\ hidden = {}

\* A rule applies to a token when the token is a defined macro name that is
\* not being replaced already (a name is not replaced again inside its own
\* replacement).
Applies(table, t, hidden) == t \in DOMAIN table /\ t \notin hidden

\* Full macro replacement of one identifier: replace, rescan the result, and
\* stop when no rule applies.
RECURSIVE Rewrite(_, _, _)
Rewrite(table, t, hidden) ==
  IF Applies(table, t, hidden)
    THEN Rewrite(table, table[t], hidden \cup {t})
    ELSE t

\* Identifiers a translation unit may mention that the header has no rule for.
Unmapped == {"memcpy", "_memcpy", "p256_point_mul_base_nohw", "_ring_core", "ring_core_0_17_14__"}

\* Identifiers a translation unit may mention.
Identifiers ==
  Lhs(AppleRules) \cup Rhs(AppleRules) \cup Lhs(NonAppleRules) \cup Rhs(NonAppleRules)
    \cup Unmapped

VARIABLES
  apple,      \* whether __APPLE__ is defined in this compilation
  tag,        \* the version string of the library copy being compiled
  guard,      \* whether ring_core_generated_PREFIX_SYMBOLS_ASM_H is defined
  macros,     \* the macro table: name |-> replacement
  redefined,  \* names whose #define met an earlier, different definition
  defines,    \* how many #define lines of the rule table have been processed
  includes,   \* how many times the header has been included
  pc,         \* "idle", "expanding" or "emitted"
  src,        \* the identifier the translation unit mentioned
  tok,        \* the token it has become so far
  hidden,     \* macro names already replaced while expanding src
  steps       \* how many rules have been applied to src

vars == <<apple, tag, guard, macros, redefined, defines, includes, pc, src, tok, hidden, steps>>

TypeOK ==
  /\ apple \in BOOLEAN
  /\ tag \in Tags
  /\ guard \in BOOLEAN
  /\ defines \in Nat
  /\ includes \in 0..MaxIncludes
  /\ pc \in {"idle", "expanding", "emitted"}
  /\ steps \in Nat

Start ==
  /\ apple \in BOOLEAN
  /\ guard = FALSE
  /\ macros = NoMacros.table
  /\ redefined = NoMacros.redefined
  /\ defines = 0
  /\ includes = 0
  /\ pc = "idle"
  /\ src = ""
  /\ tok = ""
  /\ hidden = {}
  /\ steps = 0

\* The header as shipped: version 0.17.14.
Init == Start /\ tag = VersionTag

\* A copy of the library generated under any of the version strings.
InitCopies == Start /\ tag \in Tags

\* The header without its include guard: every inclusion processes the active
\* branch again, on top of the definitions that are there.
IncludeUnguarded ==
  /\ pc = "idle"
  /\ includes < MaxIncludes
  /\ includes' = includes + 1
  /\ guard' = TRUE
  /\ macros' = Installed[apple, tag].table @@ macros
  /\ redefined' = redefined \cup Installed[apple, tag].redefined
                     \cup {n \in DOMAIN macros \cap DOMAIN Installed[apple, tag].table :
                             macros[n] # Installed[apple, tag].table[n]}
  /\ defines' = defines + Len(ActiveRules(apple, tag))
  /\ UNCHANGED <<apple, tag, pc, src, tok, hidden, steps>>

\* #include "prefix_symbols_asm.h": the first inclusion defines the guard and
\* processes the active branch; a later one skips to the final #endif.
Include ==
  /\ pc = "idle"
  /\ includes < MaxIncludes
  /\ includes' = includes + 1
  /\ IF guard
       THEN UNCHANGED <<guard, macros, redefined, defines>>
       ELSE /\ guard' = TRUE
            /\ macros' = Installed[apple, tag].table
            /\ redefined' = Installed[apple, tag].redefined
            /\ defines' = defines + Len(ActiveRules(apple, tag))
  /\ UNCHANGED <<apple, tag, pc, src, tok, hidden, steps>>

\* The translation unit mentions identifier n.
Reference(n) ==
  /\ pc = "idle"
  /\ pc' = "expanding"
  /\ src' = n
  /\ tok' = n
  /\ hidden' = {}
  /\ steps' = 0
  /\ UNCHANGED <<apple, tag, guard, macros, redefined, defines, includes>>

\* One rule is applied and the result is rescanned.
Expand ==
  /\ pc = "expanding"
  /\ Applies(macros, tok, hidden)
  /\ tok' = macros[tok]
  /\ hidden' = hidden \cup {tok}
  /\ steps' = steps + 1
  /\ UNCHANGED <<apple, tag, guard, macros, redefined, defines, includes, pc, src>>

\* No rule applies: the token is what the assembler and the linker see.
Emit ==
  /\ pc = "expanding"
  /\ ~Applies(macros, tok, hidden)
  /\ pc' = "emitted"
  /\ UNCHANGED <<apple, tag, guard, macros, redefined, defines, includes, src, tok, hidden, steps>>

\* The emitted token is written to the output and the next token is read.
Output ==
  /\ pc = "emitted"
  /\ pc' = "idle"
  /\ src' = ""
  /\ tok' = ""
  /\ hidden' = {}
  /\ steps' = 0
  /\ UNCHANGED <<apple, tag, guard, macros, redefined, defines, includes>>

Next ==
  \/ Include
  \/ \E n \in Identifiers : Reference(n)
  \/ Expand
  \/ Emit
  \/ Output

Spec == Init /\ [][Next]_vars

SpecCopies == InitCopies /\ [][Next]_vars

(***************************************************************************)
(* Properties.                                                             *)
(***************************************************************************)
\* The left-hand names of each branch.
AppleNames == Lhs(AppleRules)

NonAppleNames == Lhs(NonAppleRules)

Canonical(isApple) == IF isApple THEN AppleNames ELSE NonAppleNames

AliasRules(isApple) == IF isApple THEN AppleAliasRules ELSE NonAppleAliasRules

\* x is the left-hand name of an alias rule whose replacement is y.
IsAliasOf(isApple, x, y) ==
  \E i \in 1..Len(AliasRules(isApple)) : AliasRules(isApple)[i] = <<x, y>>

\* How many #define lines of the active branch have left-hand name n.
RuleCount(isApple, n) ==
  Cardinality({i \in 1..Len(BranchRules(isApple)) : BranchRules(isApple)[i][1] = n})

\* The lookup of a left-hand name of the active branch has just begun / has
\* applied its first rule / has ended, with the header included.
LookupBegun == guard /\ pc = "expanding" /\ steps = 0 /\ src \in Canonical(apple)

FirstRuleApplied == guard /\ pc = "expanding" /\ steps = 1 /\ src \in Canonical(apple)

LookupEnded == guard /\ pc = "emitted" /\ src \in Canonical(apple)

\* C1: in each branch every left-hand name is defined by exactly one #define
\* line, so processing the branch redefines nothing and a left-hand name
\* stands for the replacement of its one rule.
Thm_C1 ==
  /\ guard => redefined = {} /\ DOMAIN macros = Lhs(BranchRules(apple))
  /\ LookupBegun =>
       /\ RuleCount(apple, src) = 1
       /\ \E i \in 1..Len(BranchRules(apple)) :
            BranchRules(apple)[i] = <<src, macros[src]>>

Wit_C1 == LookupBegun /\ ~apple /\ src = "p256_point_double"

\* C2 as stated: two distinct left-hand names of the active branch never have
\* the same exported name.
Cex_C2 ==
  LookupEnded =>
    \A m \in Canonical(apple) \ {src} : Rewrite(macros, m, {}) # tok

\* C2: two distinct left-hand names of the active branch have the same
\* exported name only when one is the left-hand name of an alias rule and the
\* other is that rule's replacement.
Thm_C2 ==
  LookupEnded =>
    \A m \in Canonical(apple) \ {src} :
      Rewrite(macros, m, {}) = tok =>
        IsAliasOf(apple, src, m) \/ IsAliasOf(apple, m, src)

Wit_C2 ==
  /\ LookupEnded /\ ~apple /\ src = "ecp_nistz256_ord_sqr_mont"
  /\ Rewrite(macros, "p256_scalar_sqr_rep_mont", {}) = tok

\* C3: the exported name of every left-hand name starts with
\* ring_core_0_17_14__ (non-Apple) or _ring_core_0_17_14__ (Apple).
Thm_C3 ==
  LookupEnded =>
    HasPrefix(tok, IF apple THEN "_ring_core_0_17_14__" ELSE "ring_core_0_17_14__")

Wit_C3 == LookupEnded /\ ~apple /\ src = "ecp_nistz256_point_add_affine" /\ steps = 2

\* C4: the Apple branch is the non-Apple branch with one leading underscore
\* on both sides of every rule, so the Apple exported name of a name is the
\* non-Apple exported name with one underscore in front; CRYPTO_memcmp is
\* exported as _ring_core_0_17_14__CRYPTO_memcmp on Apple and as
\* ring_core_0_17_14__CRYPTO_memcmp elsewhere.
Thm_C4 ==
  LookupEnded =>
    /\ apple =>
         /\ Head(src) = "_"
         /\ \E i \in 1..Len(NonAppleRules) :
              NonAppleRules[i] = <<Tail(src), Tail(macros[src])>>
         /\ tok = "_" \o Rewrite(Installed[FALSE, tag].table, Tail(src), {})
         /\ src = "_CRYPTO_memcmp" => tok = "_ring_core_0_17_14__CRYPTO_memcmp"
    /\ ~apple =>
         /\ \E i \in 1..Len(AppleRules) :
              AppleRules[i] = <<"_" \o src, "_" \o macros[src]>>
         /\ "_" \o tok = Rewrite(Installed[TRUE, tag].table, "_" \o src, {})
         /\ src = "CRYPTO_memcmp" => tok = "ring_core_0_17_14__CRYPTO_memcmp"

Wit_C4 ==
  LookupEnded /\ apple /\ src = "_CRYPTO_memcmp" /\ tok = "_ring_core_0_17_14__CRYPTO_memcmp"

\* C5: the left-hand names of the Apple branch, each without its leading
\* underscore, are the left-hand names of the non-Apple branch: 162 each.
Thm_C5 ==
  guard =>
    /\ Cardinality(DOMAIN macros) = 162
    /\ apple =>
         /\ \A n \in DOMAIN macros : Head(n) = "_"
         /\ {Tail(n) : n \in DOMAIN macros} = NonAppleNames
    /\ ~apple => {"_" \o n : n \in DOMAIN macros} = AppleNames

Wit_C5 == guard /\ apple /\ pc = "idle" /\ Cardinality(DOMAIN macros) = 162

\* C6 as stated: the replacement of every rule is the version prefix followed
\* by the rule's own left-hand name (without the leading underscore on Apple).
Cex_C6 ==
  FirstRuleApplied =>
    tok = (IF apple THEN "_ring_core_0_17_14__" \o Tail(src)
                    ELSE "ring_core_0_17_14__" \o src)

\* C6: the replacement of every rule other than the seven alias rules is the
\* version prefix followed by the rule's own left-hand name (without the
\* leading underscore on Apple), so dropping the prefix gives the name back;
\* the replacement of an alias rule does not carry the prefix and is itself a
\* left-hand name of the branch.
Thm_C6 ==
  FirstRuleApplied =>
    LET prefix == IF apple THEN "_ring_core_0_17_14__" ELSE "ring_core_0_17_14__"
        name   == IF apple THEN Tail(src) ELSE src
    IN  IF src \in Lhs(AliasRules(apple))
          THEN ~HasPrefix(tok, prefix) /\ tok \in Canonical(apple)
          ELSE tok = prefix \o name /\ DropPrefix(tok, prefix) = name

Wit_C6 ==
  /\ FirstRuleApplied /\ ~apple /\ src = "x25519_sc_muladd"
  /\ tok = "ring_core_0_17_14__x25519_sc_muladd"

\* C7: exactly one branch is installed, the Apple one when __APPLE__ is
\* defined and the other one otherwise; with the Apple branch only names with
\* a leading underscore are rewritten and CRYPTO_memcmp is left as it is, with
\* the other branch only names without one and _CRYPTO_memcmp is left as it is.
Thm_C7 ==
  guard =>
    /\ DOMAIN macros = (IF apple THEN AppleNames ELSE NonAppleNames)
    /\ DOMAIN macros \cap (IF apple THEN NonAppleNames ELSE AppleNames) = {}
    /\ \A n \in DOMAIN macros : (Head(n) = "_") = apple
    /\ pc = "emitted" /\ src \in (IF apple THEN NonAppleNames ELSE AppleNames)
         => tok = src /\ steps = 0
    /\ pc = "emitted" /\ src = (IF apple THEN "CRYPTO_memcmp" ELSE "_CRYPTO_memcmp")
         => tok = src

Wit_C7 == guard /\ apple /\ pc = "emitted" /\ src = "CRYPTO_memcmp" /\ tok = "CRYPTO_memcmp"

\* The names a copy of the library generated for platform class isApple under
\* version string v exports.
ExportedNames(isApple, v) ==
  {Rewrite(Installed[isApple, v].table, n, {}) : n \in Canonical(isApple)}

\* C8: the exported name of a left-hand name in a copy generated under one
\* version string is not exported by a copy of the same platform class
\* generated under another version string.
Thm_C8 ==
  LookupEnded =>
    \A v \in Tags \ {tag} : tok \notin ExportedNames(apple, v)

Wit_C8 ==
  /\ LookupEnded /\ ~apple /\ tag = "0_17_1" /\ src = "ecp_nistz256_mul_mont"
  /\ tok = "ring_core_0_17_1__p256_mul_mont"

\* C9 as stated: the lookup of a name that has no rule in the active branch
\* never ends with an exported name.
Cex_C9 == guard /\ pc = "emitted" => src \in Canonical(apple)

\* C9: no lookup fails.  A lookup that is under way can always go on; the
\* lookup of a name that has a rule in the active branch ends with a
\* replacement of a rule of the branch, and the lookup of a name that has none
\* ends with the name itself, unchanged, after no rule application.
Thm_C9 ==
  /\ pc = "expanding" => ENABLED (Expand \/ Emit)
  /\ guard /\ pc = "emitted" =>
       IF src \in Canonical(apple)
         THEN steps >= 1 /\ tok # src /\ tok \in Rhs(ActiveRules(apple, tag))
         ELSE steps = 0 /\ tok = src

Wit_C9 == guard /\ pc = "emitted" /\ ~apple /\ src = "memcpy" /\ tok = "memcpy"

\* The seven alias names and their counterparts, without platform underscore.
AliasPairs ==
  { <<"ecp_nistz256_point_double", "p256_point_double">>,
    <<"ecp_nistz256_point_add", "p256_point_add">>,
    <<"ecp_nistz256_point_add_affine", "p256_point_add_affine">>,
    <<"ecp_nistz256_ord_mul_mont", "p256_scalar_mul_mont">>,
    <<"ecp_nistz256_ord_sqr_mont", "p256_scalar_sqr_rep_mont">>,
    <<"ecp_nistz256_mul_mont", "p256_mul_mont">>,
    <<"ecp_nistz256_sqr_mont", "p256_sqr_mont">> }

\* C10: each of the seven alias names ends, after two rule applications, as
\* the exported name of its p256_* counterpart: the version prefix followed by
\* the counterpart's name, with the leading underscore on Apple.
Thm_C10 ==
  \A p \in AliasPairs :
    LET u == IF apple THEN "_" ELSE ""
    IN  guard /\ pc = "emitted" /\ src = u \o p[1] =>
          /\ steps = 2
          /\ tok = Rewrite(macros, u \o p[2], {})
          /\ tok = u \o "ring_core_0_17_14__" \o p[2]

Wit_C10 ==
  /\ guard /\ pc = "emitted" /\ apple /\ src = "_ecp_nistz256_ord_mul_mont"
  /\ tok = "_ring_core_0_17_14__p256_scalar_mul_mont"

\* C11: whatever identifier is mentioned, its lookup applies at most two
\* rules and ends with a name that has no rule; the rewriting never comes back
\* to a name it has replaced already (the rules have no cycle), and a
\* replacement that starts with the version prefix is not a left-hand name of
\* any rule of either branch.
Thm_C11 ==
  /\ steps <= 2
  /\ pc = "expanding" /\ tok \in DOMAIN macros => tok \notin hidden
  /\ pc = "emitted" => tok \notin DOMAIN macros
  /\ guard =>
       \A n \in DOMAIN macros :
         HasPrefix(macros[n], IF apple THEN "_ring_core_0_17_14__"
                                       ELSE "ring_core_0_17_14__")
           => macros[n] \notin AppleNames \cup NonAppleNames

Wit_C11 ==
  /\ guard /\ pc = "emitted" /\ ~apple /\ src = "ecp_nistz256_sqr_mont" /\ steps = 2
  /\ tok = "ring_core_0_17_14__p256_sqr_mont"

\* C12: once the header has been included, however many times, the guard is
\* defined, the macro table is the active branch's rules, and each of its 162
\* names has been defined by exactly one processed #define line: only the
\* first inclusion processes the branch, a later one processes nothing.  (The
\* table is compared rule by rule between tokens, where inclusions happen.)
Thm_C12 ==
  /\ guard <=> includes >= 1
  /\ includes >= 1 =>
       /\ defines = 162
       /\ defines = Cardinality(DOMAIN macros)
       /\ redefined = {}
       /\ DOMAIN macros = Canonical(apple)
       /\ pc = "idle" =>
            \A n \in DOMAIN macros :
              \E i \in 1..Len(BranchRules(apple)) :
                BranchRules(apple)[i] = <<n, macros[n]>>
  /\ includes = 0 => defines = 0 /\ DOMAIN macros = {}

Wit_C12 == includes = 2 /\ guard /\ defines = 162 /\ pc = "idle" /\ apple

====
